---- MODULE Spec2Model ----
(***************************************************************************)
(* Resume Optimizer (src/app.py): a Streamlit script.  Every user          *)
(* interaction runs the script from its first line to its last, to an      *)
(* st.stop(), to an st.rerun() or to an uncaught exception.  Widget        *)
(* contents persist between runs; the script's local variables do not.     *)
(*                                                                         *)
(* Text is a sequence of one-character strings, so that startswith, strip, *)
(* splitlines, the regex and the JSON decoder are computed on characters.  *)
(* A Python value is a record [kind, text]: kind "str" carries its text,   *)
(* kind "none" is None, kind "dict" is a JSON object (text is its source   *)
(* span).                                                                  *)
(***************************************************************************)
EXTENDS Integers, Sequences, FiniteSets, TLC

VARIABLES
    resume_file,      \* st.file_uploader: [present, name, file_bytes]
    text_area,        \* st.text_area widget content (kept between runs)
    job_url,          \* st.text_input widget content (kept between runs)
    button,           \* st.button value in this run: TRUE only in the run the press started
    pc,               \* position of the script run
    job_description,  \* script local (line 131, reassigned at line 140)
    fetched,          \* the fetch handler in this run: [done, raised, text, as_error]
    rerun_text,       \* [pending, raised, text]: text adopted by the run whose st.rerun() started this run
    resume_text,      \* script local (lines 157-161)
    user_prompt,      \* script local (line 167)
    call,             \* the model call in this run: [made, raised, message]
    output,           \* script local (line 170), a Python value
    err,              \* script local (line 170), a Python value
    parsed_output,    \* script local (line 176), a mapping from keys to Python values
    optimized_resume, \* script local (line 177), a Python value
    shown,            \* what st.info/warning/error/success displayed in this run
    document,         \* [built, paragraphs, downloads]: the docx of line 194 and the buttons
    steps,            \* pipeline steps taken in this run, in order
    tmp_file,         \* [call, exists]: the last extract_text_from_docx call and its temp file
    crash             \* the function whose exception ended this run uncaught, or "none"

vars == <<resume_file, text_area, job_url, button, pc, job_description, fetched,
          rerun_text, resume_text, user_prompt, call, output, err, parsed_output,
          optimized_resume, shown, document, steps, tmp_file, crash>>

(***************************************************************************)
(* Bounds of the model.                                                    *)
(***************************************************************************)
\* longest model output, in fragments, the parser is run on exhaustively
MaxFrags == 5
\* longest text, in characters, the document builder is run on exhaustively
MaxTextLen == 5

(***************************************************************************)
(* Python values and string methods.                                       *)
(***************************************************************************)
Str(s) == [kind |-> "str", text |-> s]
None == [kind |-> "none", text |-> <<>>]
Dict(s) == [kind |-> "dict", text |-> s]

\* bool(x) for the values of this model: None and "" are false
truthy(v) == v.kind = "dict" \/ (v.kind = "str" /\ v.text # <<>>)

startswith(s, prefix) ==
    Len(prefix) <= Len(s) /\ SubSeq(s, 1, Len(prefix)) = prefix

endswith(s, suffix) ==
    Len(suffix) <= Len(s) /\ SubSeq(s, Len(s) - Len(suffix) + 1, Len(s)) = suffix

Whitespace == {" ", "\n", "\t", "\r"}

RECURSIVE lstrip(_)
lstrip(s) == IF s # <<>> /\ Head(s) \in Whitespace THEN lstrip(Tail(s)) ELSE s

RECURSIVE rstrip(_)
rstrip(s) ==
    IF s # <<>> /\ s[Len(s)] \in Whitespace THEN rstrip(SubSeq(s, 1, Len(s) - 1)) ELSE s

strip(s) == rstrip(lstrip(s))

\* str.splitlines over texts whose only line boundary is "\n": no empty last
\* line after a final "\n"
RECURSIVE splitlines_from(_, _, _)
splitlines_from(s, i, line) ==
    IF i > Len(s) THEN (IF line = <<>> THEN <<>> ELSE <<line>>)
    ELSE IF s[i] = "\n" THEN <<line>> \o splitlines_from(s, i + 1, <<>>)
    ELSE splitlines_from(s, i + 1, Append(line, s[i]))

splitlines(s) == splitlines_from(s, 1, <<>>)

\* "\n".join(parts)
RECURSIVE join_lines(_)
join_lines(parts) ==
    IF parts = <<>> THEN <<>>
    ELSE IF Len(parts) = 1 THEN parts[1]
    ELSE parts[1] \o <<"\n">> \o join_lines(Tail(parts))

RECURSIVE concat(_)
concat(parts) == IF parts = <<>> THEN <<>> ELSE Head(parts) \o concat(Tail(parts))

MinOf(S) == CHOOSE x \in S : \A y \in S : x <= y
MaxOf(S) == CHOOSE x \in S : \A y \in S : y <= x

(***************************************************************************)
(* String constants of the source.                                         *)
(***************************************************************************)
KEY_optimized_resume ==
    <<"o","p","t","i","m","i","z","e","d","_","r","e","s","u","m","e">>
KEY_changelog ==
    <<"c","h","a","n","g","e","l","o","g">>
KEY_suggestions ==
    <<"s","u","g","g","e","s","t","i","o","n","s">>
CHANGELOG_FALLBACK ==
    <<"C","o","u","l","d"," ","n","o","t"," ","p","a","r","s","e"," ","c","h","a","n","g","e","l","o","g"," ","f","r","o","m"," ","m","o","d","e","l"," ","o","u","t","p","u","t",".">>
SUGGESTIONS_FALLBACK ==
    <<"C","o","u","l","d"," ","n","o","t"," ","p","a","r","s","e"," ","s","u","g","g","e","s","t","i","o","n","s"," ","f","r","o","m"," ","m","o","d","e","l"," ","o","u","t","p","u","t",".">>
ERROR_SENTINEL ==
    <<"E","r","r","o","r">>
FETCH_ERROR_PREFIX ==
    <<"E","r","r","o","r"," ","f","e","t","c","h","i","n","g"," ","U","R","L",":"," ">>
OPENAI_ERROR_PREFIX ==
    <<"O","p","e","n","A","I"," ","A","P","I"," ","e","r","r","o","r",":"," ">>
BULLET_PREFIX ==
    <<"-"," ">>
EXT_PDF ==
    <<".","p","d","f">>
EXT_DOCX ==
    <<".","d","o","c","x">>

ThreeKeys == {KEY_optimized_resume, KEY_changelog, KEY_suggestions}

(***************************************************************************)
(* parse_json_output: the regex, json.loads, the fallback.                 *)
(*                                                                         *)
(* The decoder is json.loads restricted to texts made of braces, quotes,   *)
(* colons, commas, whitespace, backslash escapes of one character and      *)
(* ordinary characters that spell no JSON literal or number: over these a  *)
(* JSON value is a string or an object.                                    *)
(***************************************************************************)
ControlChars == {"\n", "\t", "\r"}
Escapes == {"\"", "\\", "/", "n", "t", "r"}

unescape(c) ==
    IF c = "n" THEN "\n" ELSE IF c = "t" THEN "\t" ELSE IF c = "r" THEN "\r" ELSE c

JsonFail == [ok |-> FALSE, next |-> 0, val |-> None, members |-> <<>>]

RECURSIVE skip_ws(_, _)
skip_ws(s, i) == IF i <= Len(s) /\ s[i] \in Whitespace THEN skip_ws(s, i + 1) ELSE i

\* the string whose opening quote is just before index i
RECURSIVE py_scanstring(_, _, _)
py_scanstring(s, i, acc) ==
    IF i > Len(s) THEN JsonFail
    ELSE IF s[i] = "\""
        THEN [ok |-> TRUE, next |-> i + 1, val |-> Str(acc), members |-> <<>>]
    ELSE IF s[i] \in ControlChars THEN JsonFail
    ELSE IF s[i] = "\\"
        THEN IF i + 1 <= Len(s) /\ s[i + 1] \in Escapes
                THEN py_scanstring(s, i + 2, Append(acc, unescape(s[i + 1])))
                ELSE JsonFail
    ELSE py_scanstring(s, i + 1, Append(acc, s[i]))

RECURSIVE json_value(_, _)

\* the members of an object from index j, where a key must start
RECURSIVE json_members(_, _, _)
json_members(s, j, acc) ==
    IF j > Len(s) \/ s[j] # "\"" THEN JsonFail
    ELSE LET k == py_scanstring(s, j + 1, <<>>) IN
         IF ~k.ok THEN JsonFail
         ELSE LET c == skip_ws(s, k.next) IN
              IF c > Len(s) \/ s[c] # ":" THEN JsonFail
              ELSE LET v == json_value(s, skip_ws(s, c + 1)) IN
                   IF ~v.ok THEN JsonFail
                   ELSE LET e == skip_ws(s, v.next)
                            acc2 == Append(acc, <<k.val.text, v.val>>)
                        IN  IF e > Len(s) THEN JsonFail
                            ELSE IF s[e] = "}"
                                THEN [ok |-> TRUE, next |-> e + 1, val |-> None,
                                      members |-> acc2]
                            ELSE IF s[e] = ","
                                THEN json_members(s, skip_ws(s, e + 1), acc2)
                            ELSE JsonFail

\* the object whose "{" is at index i
json_object(s, i) ==
    LET j == skip_ws(s, i + 1) IN
    IF j <= Len(s) /\ s[j] = "}"
        THEN [ok |-> TRUE, next |-> j + 1, val |-> None, members |-> <<>>]
        ELSE json_members(s, j, <<>>)

json_value(s, i) ==
    IF i > Len(s) THEN JsonFail
    ELSE IF s[i] = "\"" THEN py_scanstring(s, i + 1, <<>>)
    ELSE IF s[i] = "{"
        THEN LET r == json_object(s, i) IN
             IF r.ok
                THEN [ok |-> TRUE, next |-> r.next,
                      val |-> Dict(SubSeq(s, i, r.next - 1)), members |-> r.members]
                ELSE JsonFail
    ELSE JsonFail

\* json.loads(s): one value, whitespace around it, nothing after it
json_loads(s) ==
    LET r == json_value(s, skip_ws(s, 1)) IN
    IF r.ok /\ skip_ws(s, r.next) = Len(s) + 1 THEN r ELSE JsonFail

\* the dict of an object's members: a repeated key keeps its last value
py_dict(members) ==
    [k \in {members[n][1] : n \in DOMAIN members} |->
        members[MaxOf({n \in DOMAIN members : members[n][1] = k})][2]]

\* the same search with a lazy star: it ends at the first "}" after the "{"
re_search_lazy(s) ==
    LET starts == {i \in DOMAIN s : s[i] = "{" /\ \E j \in (i + 1)..Len(s) : s[j] = "}"}
    IN  IF starts = {} THEN [found |-> FALSE, group0 |-> <<>>]
        ELSE LET i == MinOf(starts)
                 j == MinOf({n \in (i + 1)..Len(s) : s[n] = "}"})
             IN  [found |-> TRUE, group0 |-> SubSeq(s, i, j)]

\* re.search(r"\{[\s\S]*\}", s): the leftmost "{" that has a "}" after it,
\* extended to the last "}" (greedy)
re_search(s) ==
    LET starts == {i \in DOMAIN s : s[i] = "{" /\ \E j \in (i + 1)..Len(s) : s[j] = "}"}
    IN  IF starts = {} THEN [found |-> FALSE, group0 |-> <<>>]
        ELSE LET i == MinOf(starts)
                 j == MaxOf({n \in (i + 1)..Len(s) : s[n] = "}"})
             IN  [found |-> TRUE, group0 |-> SubSeq(s, i, j)]

\* a fallback that leaves the suggestions placeholder out
fallback_mapping_two_keys(output_text) ==
    [k \in {KEY_optimized_resume, KEY_changelog} |->
        IF k = KEY_optimized_resume THEN output_text ELSE Str(CHANGELOG_FALLBACK)]

fallback_mapping(output_text) ==
    [k \in ThreeKeys |->
        IF k = KEY_optimized_resume THEN output_text
        ELSE IF k = KEY_changelog THEN Str(CHANGELOG_FALLBACK)
        ELSE Str(SUGGESTIONS_FALLBACK)]

\* output_text is a Python value: re.search on None raises TypeError inside
\* the try, which the except clause swallows
parse_json_output(output_text) ==
    IF output_text.kind # "str" THEN fallback_mapping(output_text)
    ELSE LET match == re_search(output_text.text) IN
         IF match.found /\ json_loads(match.group0).ok
            THEN py_dict(json_loads(match.group0).members)
            ELSE fallback_mapping(output_text)

\* dict.get(key, default)
dict_get(d, key, default) == IF key \in DOMAIN d THEN d[key] ELSE default

(***************************************************************************)
(* Text extraction (lines 27-44 and 154-161).                              *)
(*                                                                         *)
(* Uploaded bytes are [format, pages, raw]: format is what the bytes       *)
(* really are ("pdf", "docx", "text", "empty"), whatever the file is       *)
(* named; pages are the texts the format's library yields; raw are the     *)
(* bytes, an undecodable one written UNDECODABLE.  pdfplumber opens only   *)
(* "pdf" bytes and docx2txt only "docx" bytes: on anything else they raise.*)
(***************************************************************************)
UNDECODABLE == "0xFF"

\* extract_text_from_pdf: [raised, text]
extract_text_from_pdf(file_bytes) ==
    IF file_bytes.format # "pdf" THEN [raised |-> TRUE, text |-> <<>>]
    ELSE LET has_text(t) == t # <<>> IN
         [raised |-> FALSE, text |-> join_lines(SelectSeq(file_bytes.pages, has_text))]

\* extract_text_from_docx: [raised, text, tmp_exists].  write_ok is whether
\* tmp.write succeeded (it raises OSError when the disk is full).
extract_text_from_docx(file_bytes, write_ok) ==
    IF ~write_ok
        \* the with block closes the file; the try/finally is not entered
        THEN [raised |-> TRUE, text |-> <<>>, tmp_exists |-> TRUE]
    ELSE IF file_bytes.format # "docx"
        \* docx2txt.process raises; finally: os.remove
        THEN [raised |-> TRUE, text |-> <<>>, tmp_exists |-> FALSE]
    ELSE [raised |-> FALSE, text |-> concat(file_bytes.pages), tmp_exists |-> FALSE]

\* file_bytes.decode(errors="ignore")
decode_ignore(file_bytes) ==
    LET decodable(b) == b # UNDECODABLE IN SelectSeq(file_bytes.raw, decodable)

(***************************************************************************)
(* fetch_text_from_url (lines 46-62).  response is what the GET, the       *)
(* status check and the HTML parsing came to: [raised, message, page_text],*)
(* page_text being the text of the selected element before strip().       *)
(***************************************************************************)
fetch_text_from_url(url, response) ==
    IF response.raised THEN FETCH_ERROR_PREFIX \o response.message
    ELSE strip(response.page_text)

(***************************************************************************)
(* build_user_prompt (lines 76-82).                                        *)
(***************************************************************************)
PROMPT_RESUME_HEADER ==
    <<"C","a","n","d","i","d","a","t","e"," ","R","e","s","u","m","e",":","\n">>
PROMPT_JOB_HEADER ==
    <<"\n","\n","J","o","b"," ","D","e","s","c","r","i","p","t","i","o","n",":","\n">>
PROMPT_INSTRUCTION ==
    <<"\n","\n","R","e","w","r","i","t","e"," ","t","h","e"," ","r","e","s","u","m","e"," ","t","o"," ","a","l","i","g","n"," ","w","i","t","h"," ","t","h","e"," ","j","o","b"," ","p","o","s","t","i","n","g"," ","a","s"," ","p","e","r"," ","t","h","e"," ","s","y","s","t","e","m"," ","r","u","l","e","s"," ","a","b","o","v","e","."," ","I","f"," ","k","e","y"," ","s","k","i","l","l","s"," ","a","r","e"," ","m","i","s","s","i","n","g",","," ","l","i","s","t"," ","t","h","e","m"," ","o","n","l","y"," ","i","n"," ","'","s","u","g","g","e","s","t","i","o","n","s","'",","," ","n","o","t"," ","i","n","s","i","d","e"," ","t","h","e"," ","r","e","s","u","m","e",".">>

build_user_prompt(resume, job_text) ==
    PROMPT_RESUME_HEADER \o resume \o PROMPT_JOB_HEADER \o job_text \o PROMPT_INSTRUCTION

(***************************************************************************)
(* call_openai_chat (lines 84-97).  reply is what client.responses.create  *)
(* came to: [raised, message, output_text].  Returns (output, err).        *)
(***************************************************************************)
call_openai_chat(prompt, reply) ==
    IF reply.raised THEN [output |-> None, err |-> Str(reply.message)]
    ELSE [output |-> Str(reply.output_text), err |-> None]

(***************************************************************************)
(* create_docx_from_text (lines 99-111): the paragraphs of the document.   *)
(***************************************************************************)
\* the same classification with the "- " test made on the line as written
paragraph_of_unstripped(line) ==
    IF strip(line) = <<>> THEN [style |-> "Normal", text |-> <<>>]
    ELSE IF startswith(line, BULLET_PREFIX)
        THEN [style |-> "List Bullet", text |-> SubSeq(line, Len(BULLET_PREFIX) + 1, Len(line))]
    ELSE [style |-> "Normal", text |-> line]

paragraph_of(line) ==
    IF strip(line) = <<>> THEN [style |-> "Normal", text |-> <<>>]
    ELSE IF startswith(strip(line), BULLET_PREFIX)
        THEN [style |-> "List Bullet",
              text |-> SubSeq(strip(line), Len(BULLET_PREFIX) + 1, Len(strip(line)))]
    ELSE [style |-> "Normal", text |-> line]

create_docx_from_text(text) ==
    LET lines == splitlines(text) IN [i \in DOMAIN lines |-> paragraph_of(lines[i])]

(***************************************************************************)
(* The environment: what the user can upload, type and get back.           *)
(***************************************************************************)
INFO_UPLOAD ==
    <<"P","l","e","a","s","e"," ","u","p","l","o","a","d"," ","a"," ","r","e","s","u","m","e"," ","t","o"," ","c","o","n","t","i","n","u","e",".">>
WARN_JOB ==
    <<"P","l","e","a","s","e"," ","p","r","o","v","i","d","e"," ","a"," ","j","o","b"," ","d","e","s","c","r","i","p","t","i","o","n"," ","o","r"," ","a"," ","v","a","l","i","d"," ","U","R","L",".">>
SUCCESS_FETCHED ==
    <<"F","e","t","c","h","e","d"," ","j","o","b"," ","d","e","s","c","r","i","p","t","i","o","n"," ","s","u","c","c","e","s","s","f","u","l","l","y",".">>
SUCCESS_COMPLETE ==
    <<"R","e","s","u","m","e"," ","o","p","t","i","m","i","z","a","t","i","o","n"," ","c","o","m","p","l","e","t","e","!">>

Jane == <<"J","a","n","e">>
Doe == <<"D","o","e">>

EmptyBytes == [format |-> "empty", pages |-> <<>>, raw |-> <<>>]
PdfBytes == [format |-> "pdf", pages |-> <<Jane, <<>>, Doe>>, raw |-> <<UNDECODABLE>>]
DocxBytes == [format |-> "docx", pages |-> <<Jane>>, raw |-> <<UNDECODABLE>>]
TextBytes == [format |-> "text", pages |-> <<>>, raw |-> <<"J", UNDECODABLE, "D">>]

NoFile == [present |-> FALSE, name |-> <<>>, file_bytes |-> EmptyBytes]
Upload(name, file_bytes) == [present |-> TRUE, name |-> name, file_bytes |-> file_bytes]

Uploads ==
    { Upload(<<"c","v",".","p","d","f">>, PdfBytes),
      Upload(<<"c","v",".","p","d","f">>, EmptyBytes),
      Upload(<<"c","v",".","d","o","c","x">>, DocxBytes),
      Upload(<<"c","v",".","d","o","c","x">>, EmptyBytes),
      Upload(<<"c","v",".","t","x","t">>, TextBytes),
      Upload(<<"c","v",".","t","x","t">>, EmptyBytes) }

PastedJob == <<"P","y","t","h","o","n"," ","d","e","v">>
Pastes == { <<>>, <<" ", "\n">>, PastedJob }

SomeUrl == <<"h","t","t","p",":","/","/","j","o","b","s","/","1">>
Urls == { <<>>, SomeUrl }

FetchFailure(message) == [raised |-> TRUE, message |-> message, page_text |-> <<>>]
FetchedPage(page_text) == [raised |-> FALSE, message |-> <<>>, page_text |-> page_text]

Responses ==
    { FetchFailure(<<"4","0","4"," ","N","o","t"," ","F","o","u","n","d">>),
      FetchedPage(<<" ","D","a","t","a"," ","e","n","g","i","n","e","e","r"," ","\n">>),
      FetchedPage(<<"E","r","r","o","r"," ","b","u","d","g","e","t"," ","o","w","n","e","r">>) }

ThreeFieldJson ==
    <<"{","\"","o","p","t","i","m","i","z","e","d","_","r","e","s","u","m","e","\"",":","\"","A","\"",",","\"","c","h","a","n","g","e","l","o","g","\"",":","\"","B","\"",",","\"","s","u","g","g","e","s","t","i","o","n","s","\"",":","\"","C","\"","}">>
ResumeJson ==
    <<"{","\"","o","p","t","i","m","i","z","e","d","_","r","e","s","u","m","e","\"",":","\"","H","e","a","d","e","r","\\","n","-"," ","b","u","l","l","e","t"," ","o","n","e","\\","n","\\","n","F","o","o","t","e","r","\"",",","\"","c","h","a","n","g","e","l","o","g","\"",":","\"","B","\"",",","\"","s","u","g","g","e","s","t","i","o","n","s","\"",":","\"","C","\"","}">>
NestedJson ==
    <<"{","\"","o","p","t","i","m","i","z","e","d","_","r","e","s","u","m","e","\"",":","{","\"","n","a","m","e","\"",":","\"","A","\"","}","}">>
PlainTextOnly ==
    <<"p","l","a","i","n"," ","t","e","x","t"," ","o","n","l","y">>
BraceInString ==
    <<"{","\"","c","h","a","n","g","e","l","o","g","\"",":","\"","a","}","\"","}">>
TwoObjects ==
    <<"{","\"","c","h","a","n","g","e","l","o","g","\"",":","\"","B","\"","}"," ","a","n","d"," ","{","\"","c","h","a","n","g","e","l","o","g","\"",":","\"","B","\"","}">>
SpacedJson ==
    <<" ","{"," ","\"","c","h","a","n","g","e","l","o","g","\""," ",":"," ","\"","B","\""," ",","," ","\"","c","h","a","n","g","e","l","o","g","\""," ",":"," ","\"","C","\""," ","}"," ">>

ModelReply(output_text) == [raised |-> FALSE, message |-> <<>>, output_text |-> output_text]
ModelFailure(message) == [raised |-> TRUE, message |-> message, output_text |-> <<>>]

Replies ==
    { ModelReply(ThreeFieldJson), ModelReply(ResumeJson), ModelReply(NestedJson),
      ModelReply(PlainTextOnly), ModelReply(<<"{","}">>),
      ModelFailure(<<"t","i","m","e","d"," ","o","u","t">>), ModelFailure(<<>>) }

\* the model outputs the parser is run on exhaustively: every concatenation
\* of at most MaxFrags fragments, and the examples
Fragments ==
    { <<"{">>, <<"}">>, <<",">>, <<"x">>,
      <<"\"","c","h","a","n","g","e","l","o","g","\"",":">>, <<"\"","B","\"">> }

ParserTexts ==
    { concat(fs) : fs \in UNION { [1..n -> Fragments] : n \in 0..MaxFrags } }
    \cup { ThreeFieldJson, ResumeJson, NestedJson, PlainTextOnly, BraceInString,
           TwoObjects, SpacedJson }

\* the texts the document builder is run on exhaustively
RenderChars == {"-", " ", "a", "\n"}
RenderTexts == UNION { [1..n -> RenderChars] : n \in 0..MaxTextLen }

(***************************************************************************)
(* The script run.                                                         *)
(***************************************************************************)
PIPELINE == <<"extract", "build_prompts", "call_model", "parse", "render">>

NoFetch == [done |-> FALSE, raised |-> FALSE, text |-> <<>>, as_error |-> FALSE]
NoRerun == [pending |-> FALSE, raised |-> FALSE, text |-> <<>>]
NoCall == [made |-> FALSE, raised |-> FALSE, message |-> <<>>]
NoDocument == [built |-> FALSE, paragraphs |-> <<>>, downloads |-> FALSE, txt |-> <<>>]
NoTmpFile == [call |-> "none", exists |-> FALSE]
EmptyMapping == [k \in {} |-> None]

Message(level, text) == [level |-> level, text |-> text]

\* the script starts over: no local survives
FreshLocals ==
    /\ job_description' = <<>>
    /\ fetched' = NoFetch
    /\ resume_text' = <<>>
    /\ user_prompt' = <<>>
    /\ call' = NoCall
    /\ output' = None
    /\ err' = None
    /\ parsed_output' = EmptyMapping
    /\ optimized_resume' = None
    /\ shown' = <<>>
    /\ document' = NoDocument
    /\ steps' = <<>>
    /\ crash' = "none"
    /\ pc' = "widgets"

Init ==
    /\ resume_file = NoFile
    /\ text_area = <<>>
    /\ job_url = <<>>
    /\ button = FALSE
    /\ pc = "widgets"
    /\ job_description = <<>>
    /\ fetched = NoFetch
    /\ rerun_text = NoRerun
    /\ resume_text = <<>>
    /\ user_prompt = <<>>
    /\ call = NoCall
    /\ output = None
    /\ err = None
    /\ parsed_output = EmptyMapping
    /\ optimized_resume = None
    /\ shown = <<>>
    /\ document = NoDocument
    /\ steps = <<>>
    /\ tmp_file = NoTmpFile
    /\ crash = "none"

RunOver == pc \in {"stopped", "done", "crashed"}

\* the user acts on a widget once the run is over; Streamlit runs the script again
UploadResume ==
    /\ RunOver
    /\ \E f \in Uploads \cup {NoFile} : resume_file' = f
    /\ button' = FALSE
    /\ rerun_text' = NoRerun
    /\ FreshLocals
    /\ UNCHANGED <<text_area, job_url, tmp_file>>

PasteJobDescription ==
    /\ RunOver
    /\ \E t \in Pastes : text_area' = t
    /\ button' = FALSE
    /\ rerun_text' = NoRerun
    /\ FreshLocals
    /\ UNCHANGED <<resume_file, job_url, tmp_file>>

TypeUrl ==
    /\ RunOver
    /\ \E u \in Urls : job_url' = u
    /\ button' = FALSE
    /\ rerun_text' = NoRerun
    /\ FreshLocals
    /\ UNCHANGED <<resume_file, text_area, tmp_file>>

PressFetch ==
    /\ RunOver
    /\ button' = TRUE
    /\ rerun_text' = NoRerun
    /\ FreshLocals
    /\ UNCHANGED <<resume_file, text_area, job_url, tmp_file>>

\* a download button exists only once the run rendered it
PressDownload ==
    /\ pc = "done"
    /\ document.downloads
    /\ button' = FALSE
    /\ rerun_text' = NoRerun
    /\ FreshLocals
    /\ UNCHANGED <<resume_file, text_area, job_url, tmp_file>>

\* lines 127-132: the widgets are drawn and read
ReadWidgets ==
    /\ pc = "widgets"
    /\ job_description' = text_area
    /\ pc' = "button"
    /\ UNCHANGED <<resume_file, text_area, job_url, button, fetched, rerun_text,
                   resume_text, user_prompt, call, output, err, parsed_output,
                   optimized_resume, shown, document, steps, tmp_file, crash>>

\* line 137: the handler's test of the Fetcher's result
is_fetch_error(text) == startswith(text, ERROR_SENTINEL)

\* lines 137-138: st.error is followed by no st.stop(); the script goes on
\* to line 145
after_fetch_error_stop == "stopped"
after_fetch_error == "gate_resume"

\* lines 134-142: the fetch button's handler
FetchButton ==
    /\ pc = "button"
    /\ IF button /\ job_url # <<>>
        THEN \E response \in Responses :
            LET text == fetch_text_from_url(job_url, response) IN
            IF is_fetch_error(text)
                THEN /\ shown' = Append(shown, Message("error", text))
                     /\ fetched' = [done |-> TRUE, raised |-> response.raised,
                                    text |-> text, as_error |-> TRUE]
                     /\ pc' = after_fetch_error
                     /\ UNCHANGED <<job_description, button, rerun_text, resume_text,
                                    user_prompt, call, output, err, parsed_output,
                                    optimized_resume, document, steps, crash>>
                \* job_description = text; st.success; st.rerun() ends this run
                \* and starts the script again with the button released
                ELSE /\ rerun_text' = [pending |-> TRUE, raised |-> response.raised,
                                       text |-> text]
                     /\ button' = FALSE
                     /\ FreshLocals
        ELSE /\ pc' = "gate_resume"
             /\ UNCHANGED <<job_description, button, fetched, rerun_text, resume_text,
                            user_prompt, call, output, err, parsed_output,
                            optimized_resume, shown, document, steps, crash>>
    /\ UNCHANGED <<resume_file, text_area, job_url, tmp_file>>

\* lines 145-147
has_resume(file) == file.present

GateResume ==
    /\ pc = "gate_resume"
    /\ IF ~has_resume(resume_file)
        THEN /\ shown' = Append(shown, Message("info", INFO_UPLOAD))
             /\ pc' = "stopped"
        ELSE /\ pc' = "gate_job"
             /\ UNCHANGED shown
    /\ UNCHANGED <<resume_file, text_area, job_url, button, job_description, fetched,
                   rerun_text, resume_text, user_prompt, call, output, err,
                   parsed_output, optimized_resume, document, steps, tmp_file, crash>>

\* the gate of line 149 without its strip()
has_job_description_unstripped(text) == text # <<>>

\* lines 149-151
has_job_description(text) == strip(text) # <<>>

GateJob ==
    /\ pc = "gate_job"
    /\ IF ~has_job_description(job_description)
        THEN /\ shown' = Append(shown, Message("warning", WARN_JOB))
             /\ pc' = "stopped"
        ELSE /\ pc' = "extract"
             /\ UNCHANGED shown
    /\ UNCHANGED <<resume_file, text_area, job_url, button, job_description, fetched,
                   rerun_text, resume_text, user_prompt, call, output, err,
                   parsed_output, optimized_resume, document, steps, tmp_file, crash>>

\* lines 154-161: an exception of an extractor is caught nowhere
ExtractResume ==
    /\ pc = "extract"
    /\ steps' = Append(steps, "extract")
    /\ IF endswith(resume_file.name, EXT_PDF)
        THEN LET r == extract_text_from_pdf(resume_file.file_bytes) IN
             /\ resume_text' = r.text
             /\ pc' = IF r.raised THEN "crashed" ELSE "prompts"
             /\ crash' = IF r.raised THEN "extract_text_from_pdf" ELSE crash
             /\ UNCHANGED tmp_file
       ELSE IF endswith(resume_file.name, EXT_DOCX)
        THEN \E write_ok \in BOOLEAN :
             LET r == extract_text_from_docx(resume_file.file_bytes, write_ok) IN
             /\ resume_text' = r.text
             /\ pc' = IF r.raised THEN "crashed" ELSE "prompts"
             /\ crash' = IF r.raised THEN "extract_text_from_docx" ELSE crash
             /\ tmp_file' = [call |-> IF r.raised THEN "raised" ELSE "returned",
                             exists |-> r.tmp_exists]
       ELSE /\ resume_text' = decode_ignore(resume_file.file_bytes)
            /\ pc' = "prompts"
            /\ UNCHANGED <<crash, tmp_file>>
    /\ UNCHANGED <<resume_file, text_area, job_url, button, job_description, fetched,
                   rerun_text, user_prompt, call, output, err, parsed_output,
                   optimized_resume, shown, document>>

\* lines 166-167
BuildPrompts ==
    /\ pc = "prompts"
    /\ steps' = Append(steps, "build_prompts")
    /\ user_prompt' = build_user_prompt(resume_text, job_description)
    /\ pc' = "call"
    /\ UNCHANGED <<resume_file, text_area, job_url, button, job_description, fetched,
                   rerun_text, resume_text, call, output, err, parsed_output,
                   optimized_resume, shown, document, tmp_file, crash>>

\* lines 169-170
CallModel ==
    /\ pc = "call"
    /\ steps' = Append(steps, "call_model")
    /\ \E reply \in Replies :
        LET r == call_openai_chat(user_prompt, reply) IN
        /\ output' = r.output
        /\ err' = r.err
        /\ call' = [made |-> TRUE, raised |-> reply.raised, message |-> reply.message]
    /\ pc' = "check"
    /\ UNCHANGED <<resume_file, text_area, job_url, button, job_description, fetched,
                   rerun_text, resume_text, user_prompt, parsed_output,
                   optimized_resume, shown, document, tmp_file, crash>>

\* lines 172-174
CheckError ==
    /\ pc = "check"
    /\ IF truthy(err)
        THEN /\ shown' = Append(shown, Message("error", OPENAI_ERROR_PREFIX \o err.text))
             /\ pc' = "stopped"
        ELSE /\ pc' = "parse"
             /\ UNCHANGED shown
    /\ UNCHANGED <<resume_file, text_area, job_url, button, job_description, fetched,
                   rerun_text, resume_text, user_prompt, call, output, err,
                   parsed_output, optimized_resume, document, steps, tmp_file, crash>>

\* lines 176-179
ParseOutput ==
    /\ pc = "parse"
    /\ steps' = Append(steps, "parse")
    /\ parsed_output' = parse_json_output(output)
    /\ optimized_resume' = dict_get(parse_json_output(output), KEY_optimized_resume, Str(<<>>))
    /\ pc' = "display"
    /\ UNCHANGED <<resume_file, text_area, job_url, button, job_description, fetched,
                   rerun_text, resume_text, user_prompt, call, output, err, shown,
                   document, tmp_file, crash>>

\* lines 182-191: st.code and st.write take any value
DisplayResults ==
    /\ pc = "display"
    /\ steps' = Append(steps, "render")
    /\ shown' = Append(shown, Message("success", SUCCESS_COMPLETE))
    /\ pc' = "downloads"
    /\ UNCHANGED <<resume_file, text_area, job_url, button, job_description, fetched,
                   rerun_text, resume_text, user_prompt, call, output, err,
                   parsed_output, optimized_resume, document, tmp_file, crash>>

\* lines 194-211: text.splitlines() raises AttributeError on a value that is
\* no string
DownloadButtons ==
    /\ pc = "downloads"
    /\ IF optimized_resume.kind = "str"
        THEN /\ document' = [built |-> TRUE,
                             paragraphs |-> create_docx_from_text(optimized_resume.text),
                             downloads |-> TRUE,
                             txt |-> optimized_resume.text]
             /\ pc' = "done"
             /\ UNCHANGED crash
        ELSE /\ crash' = "create_docx_from_text"
             /\ pc' = "crashed"
             /\ UNCHANGED document
    /\ UNCHANGED <<resume_file, text_area, job_url, button, job_description, fetched,
                   rerun_text, resume_text, user_prompt, call, output, err,
                   parsed_output, optimized_resume, shown, steps, tmp_file>>

Next ==
    \/ UploadResume
    \/ PasteJobDescription
    \/ TypeUrl
    \/ PressFetch
    \/ PressDownload
    \/ ReadWidgets
    \/ FetchButton
    \/ GateResume
    \/ GateJob
    \/ ExtractResume
    \/ BuildPrompts
    \/ CallModel
    \/ CheckError
    \/ ParseOutput
    \/ DisplayResults
    \/ DownloadButtons

Spec == Init /\ [][Next]_vars

(***************************************************************************)
(* The parser and the document builder on their own: the run stands at     *)
(* line 176 with any of ParserTexts as the model's output, or at line 194  *)
(* with any of RenderTexts as the optimized resume (the output of a model  *)
(* that answered in plain text).                                           *)
(***************************************************************************)
AfterCall(text) ==
    /\ resume_file = Upload(<<"c","v",".","t","x","t">>, TextBytes)
    /\ text_area = PastedJob
    /\ job_url = <<>>
    /\ button = FALSE
    /\ job_description = PastedJob
    /\ fetched = NoFetch
    /\ rerun_text = NoRerun
    /\ resume_text = decode_ignore(TextBytes)
    /\ user_prompt = build_user_prompt(decode_ignore(TextBytes), PastedJob)
    /\ call = [made |-> TRUE, raised |-> FALSE, message |-> <<>>]
    /\ output = Str(text)
    /\ err = None
    /\ tmp_file = NoTmpFile
    /\ crash = "none"

InitParser ==
    \E text \in ParserTexts :
        /\ AfterCall(text)
        /\ pc = "parse"
        /\ parsed_output = EmptyMapping
        /\ optimized_resume = None
        /\ shown = <<>>
        /\ document = NoDocument
        /\ steps = SubSeq(PIPELINE, 1, 3)

NextParser == ParseOutput

SpecParser == InitParser /\ [][NextParser]_vars

InitRender ==
    \E text \in RenderTexts :
        /\ AfterCall(text)
        /\ pc = "downloads"
        /\ parsed_output = fallback_mapping(Str(text))
        /\ optimized_resume = Str(text)
        /\ shown = <<Message("success", SUCCESS_COMPLETE)>>
        /\ document = NoDocument
        /\ steps = PIPELINE

NextRender == DownloadButtons

SpecRender == InitRender /\ [][NextRender]_vars

(***************************************************************************)
(* Properties.                                                             *)
(***************************************************************************)
Range(s) == {s[n] : n \in DOMAIN s}

Contains(s, part) ==
    \E n \in 0..(Len(s) - Len(part)) : SubSeq(s, n + 1, n + Len(part)) = part

IsPrefix(s, t) == Len(s) <= Len(t) /\ s = SubSeq(t, 1, Len(s))

\* the span from the first "{" to the last "}", when the one comes before the other
HasBraceSpan(s) ==
    \E i, j \in DOMAIN s : i < j /\ s[i] = "{" /\ s[j] = "}"

BraceSpan(s) ==
    SubSeq(s, MinOf({i \in DOMAIN s : s[i] = "{"}), MaxOf({j \in DOMAIN s : s[j] = "}"}))

CanParse(s) == HasBraceSpan(s) /\ json_loads(BraceSpan(s)).ok

WrittenKeys(s) ==
    LET members == json_loads(BraceSpan(s)).members IN
    {members[n][1] : n \in DOMAIN members}

\* C1: after a successful fetch, the job text embedded in the user prompt of
\* the run that st.rerun() starts is the fetched text.
C1_FetchedTextInPrompt ==
    (rerun_text.pending /\ "build_prompts" \in Range(steps))
        => user_prompt = build_user_prompt(resume_text, rerun_text.text)

\* C2: whenever the model call raised, once the error check has run the run
\* is halted with an error message containing the failure text, and neither
\* the parser nor the document builder nor the download buttons were reached.
C2_ModelFailureHalts ==
    (call.raised /\ pc # "check")
        => /\ pc = "stopped"
           /\ \E n \in DOMAIN shown :
                /\ shown[n].level = "error"
                /\ startswith(shown[n].text, OPENAI_ERROR_PREFIX)
                /\ Contains(shown[n].text, call.message)
           /\ "parse" \notin Range(steps)
           /\ ~document.built
           /\ ~document.downloads

\* C3 as stated: for every raw model output, the mapping parse_json_output
\* returns has exactly the keys optimized_resume, changelog and suggestions.
C3_ExactlyThreeKeys ==
    pc = "display" => DOMAIN parsed_output = ThreeKeys

\* C3 as amended: parse_json_output returns a mapping; on the fallback path
\* its keys are exactly the three; on the successful-parse path it is the
\* parsed object as is, its keys those written in the object (any set), and
\* the call site reads a missing optimized_resume as the empty string.
C3_KeysAsWrittenOrThree ==
    pc = "display" =>
        /\ IF CanParse(output.text)
            THEN DOMAIN parsed_output = WrittenKeys(output.text)
            ELSE DOMAIN parsed_output = ThreeKeys
        /\ IF KEY_optimized_resume \in DOMAIN parsed_output
            THEN optimized_resume = parsed_output[KEY_optimized_resume]
            ELSE optimized_resume = Str(<<>>)

C3_Witness ==
    /\ pc = "display"
    /\ CanParse(output.text)
    /\ DOMAIN parsed_output = {KEY_changelog}

\* C4: whenever the input has no "{" followed later by a "}", or the span
\* from the first "{" to the last "}" is not valid JSON, parse_json_output
\* returns (it does not raise) the fallback mapping: optimized_resume is the
\* whole raw input, changelog and suggestions are the two fixed placeholders.
C4_FallbackWhenUnparsable ==
    (pc = "display" /\ ~CanParse(output.text)) =>
        /\ crash = "none"
        /\ DOMAIN parsed_output = ThreeKeys
        /\ parsed_output[KEY_optimized_resume] = output
        /\ parsed_output[KEY_changelog] = Str(CHANGELOG_FALLBACK)
        /\ parsed_output[KEY_suggestions] = Str(SUGGESTIONS_FALLBACK)

C4_Witness ==
    /\ pc = "display"
    /\ HasBraceSpan(output.text)
    /\ ~json_loads(BraceSpan(output.text)).ok
    /\ parsed_output[KEY_optimized_resume] = output

\* C5 as stated: in a run where the URL fetch failed and its error is
\* displayed, no resume extraction, model call or rendering happens.
C5_FetchFailureHalts ==
    (fetched.done /\ fetched.raised /\ fetched.as_error) => steps = <<>>

\* C5 as amended: a failed fetch shows its error and leaves the job
\* description as the text area holds it, and does not halt the run: the
\* script goes on to the two input gates, and the pipeline runs in the same
\* run exactly when a resume is uploaded and the text area is not blank.  A
\* run is halted only by a missing resume, a blank job description or a
\* model-call error with a non-empty message.
C5_FetchFailureFallsThrough ==
    (fetched.done /\ fetched.raised) =>
        /\ fetched.as_error
        /\ shown # <<>> /\ shown[1] = Message("error", fetched.text)
        /\ job_description = text_area
        /\ (pc = "stopped" =>
                \/ ~resume_file.present /\ shown[Len(shown)] = Message("info", INFO_UPLOAD)
                \/ strip(text_area) = <<>> /\ shown[Len(shown)] = Message("warning", WARN_JOB)
                \/ /\ call.raised /\ call.message # <<>>
                   /\ shown[Len(shown)] = Message("error", OPENAI_ERROR_PREFIX \o call.message))
        /\ (steps # <<>> <=>
                /\ resume_file.present
                /\ strip(text_area) # <<>>
                /\ pc \notin {"gate_resume", "gate_job", "extract"})

C5_Witness ==
    /\ fetched.done /\ fetched.raised /\ fetched.as_error
    /\ pc = "done"
    /\ steps = PIPELINE

\* C6: after extract_text_from_docx finished, by returning or by raising
\* after the temporary file was created, the temporary file no longer exists.
C6_TempFileRemoved ==
    tmp_file.call \in {"returned", "raised"} => ~tmp_file.exists

\* C7: text extraction never raises: for every upload, the empty one
\* included, the run gets past the extraction to the prompt-building step
\* (a failed write of the temporary file aside: that is no property of the
\* uploaded bytes).
C7_ExtractionNeverRaises ==
    ("extract" \in Range(steps) /\ ~(tmp_file.call = "raised" /\ tmp_file.exists))
        => /\ crash \notin {"extract_text_from_pdf", "extract_text_from_docx"}
           /\ pc # "extract"

\* C8 as stated: one paragraph per line, in order; a blank line gives an
\* empty paragraph, a line that begins with "- " a bulleted item with the
\* prefix removed, every other line (one with whitespace before "- "
\* included) a plain paragraph with the line's text unchanged.
C8_ClassifiedByLineStart ==
    pc = "done" =>
        LET lines == splitlines(optimized_resume.text)
            ps == document.paragraphs
        IN  /\ Len(ps) = Len(lines)
            /\ \A n \in DOMAIN lines :
                IF strip(lines[n]) = <<>>
                    THEN ps[n] = [style |-> "Normal", text |-> <<>>]
                ELSE IF startswith(lines[n], BULLET_PREFIX)
                    THEN ps[n] = [style |-> "List Bullet",
                                  text |-> SubSeq(lines[n], 3, Len(lines[n]))]
                ELSE ps[n] = [style |-> "Normal", text |-> lines[n]]

\* C8 as amended: one paragraph per line, in order, classified on the line
\* stripped of leading and trailing whitespace: nothing left gives an empty
\* paragraph; a stripped line that begins with "- " gives a bulleted item
\* whose text is the stripped line without those two characters; every other
\* line (the line "- " alone included, which strips to "-") gives a plain
\* paragraph with the line's text unchanged.
C8_ClassifiedByStrippedLine ==
    pc = "done" =>
        LET text == optimized_resume.text
            lines == splitlines(text)
            ps == document.paragraphs
            breaks == Cardinality({n \in DOMAIN text : text[n] = "\n"})
        IN  /\ Len(ps) = breaks + (IF text # <<>> /\ text[Len(text)] # "\n" THEN 1 ELSE 0)
            /\ Len(ps) = Len(lines)
            /\ \A n \in DOMAIN lines :
                LET core == strip(lines[n]) IN
                IF core = <<>>
                    THEN ps[n].style = "Normal" /\ ps[n].text = <<>>
                ELSE IF Len(core) >= 2 /\ core[1] = "-" /\ core[2] = " "
                    THEN ps[n].style = "List Bullet" /\ <<"-", " ">> \o ps[n].text = core
                ELSE ps[n].style = "Normal" /\ ps[n].text = lines[n]

C8_Witness ==
    /\ pc = "done"
    /\ optimized_resume.text = <<" ", "-", " ", "a", " ">>
    /\ document.paragraphs = <<[style |-> "List Bullet", text |-> <<"a">>]>>

\* C9: within one run the pipeline steps happen at most once each and in the
\* order extract, build prompts, call model, parse, render; the model is
\* never called unless a resume is uploaded and the job description is not
\* blank; parse and render never come before the model call has returned.
C9_LinearSingleShot ==
    /\ IsPrefix(steps, PIPELINE)
    /\ call.made <=> "call_model" \in Range(steps)
    /\ call.made => resume_file.present /\ strip(job_description) # <<>>
    /\ "parse" \in Range(steps) => call.made /\ pc \notin {"call", "check"}
    /\ output # None => call.made /\ ~call.raised

C9_Witness ==
    /\ pc = "done"
    /\ steps = PIPELINE
    /\ document.downloads

\* C10: the fetch handler treats the Fetcher's result as a failure if and
\* only if the fetch failed: a fetched page is never shown as an error and
\* dropped, and a failed fetch is never adopted as the job description.
C10_ErrorIffFetchFailed ==
    /\ fetched.done => (fetched.as_error <=> fetched.raised)
    /\ rerun_text.pending => ~rerun_text.raised

====
